---- MODULE Spec2Model ----
(***************************************************************************)
(* Model of the drum console firmware: TouchlessButton (proximity-sensor   *)
(* button with running-average smoothing and enter/exit confirm delays)    *)
(* and UdpSerial (line framing and two-token parsing of a serial stream).  *)
(*                                                                         *)
(* Times are millis() readings.  A character is a one-character string, a  *)
(* text is a sequence of characters.                                       *)
(***************************************************************************)
EXTENDS Integers, Sequences, FiniteSets, TLC

VARIABLES
  btn,          \* button id -> the fields of that TouchlessButton object
  currRadioId,  \* file-scope id of the selected radio button (0: none)
  now,          \* the millis() reading of the most recent update()
  polled,       \* id of the button whose update() ran last (0: none yet)
  emitted,      \* the onButtonTriggered calls of that update(), in order
  obs,          \* button id -> observations of its poll history (not program state)
  recent,       \* id -> kind of the most recent onButtonTriggered call for
                \* that id by any update() (not program state)
  udp,          \* the fields of the UdpSerial object
  wire,         \* bytes the sender has still to put on the serial line
  serialIn,     \* bytes received and not yet read (Serial.available() of them)
  calls,        \* the callbacks made by the most recent UdpSerial::update(), in order
  rx            \* observations of the bytes read so far (not program state)

btnVars == <<btn, currRadioId, now, polled, emitted, obs, recent>>

udpVars == <<udp, wire, serialIn, calls, rx>>

vars ==
  <<btn, currRadioId, now, polled, emitted, obs, recent, udp, wire, serialIn, calls, rx>>

-----------------------------------------------------------------------------
(* Sizes of the explored configuration *)

\* length of the running-average buffer (the sketch's SMOOTHING)
SMOOTHING == 2

\* thresholds passed to setThreshold() by the sketch
MinThreshold == 8
MaxThreshold == 12

\* last millis() reading explored
MaxTime == 2000

\* time between two consecutive update() calls
Steps == {100, 300}

\* analogRead() results fed to the buttons (distances 15 and 10)
AnalogReads == {177, 266}

\* the same for the radio group
MaxTimeRadio == 2400

RadioSteps == {300}

RadioReads == {177, 266}

NL == "\n"

\* the pattern of the handshake line
HANDSHAKE == <<"h", "a", "n", "d", "s", "h", "a", "k", "e">>

\* the lines sent over the serial line: lead, word, gap, value, trail
Words == {<<>>, HANDSHAKE, <<"/", "b", "1">>, <<"f", "o", "o">>,
          <<"/", "h", "a", "n", "d", "s", "h", "a", "k", "e">>}

Values == {<<>>, <<"5">>, <<"9">>, <<"1", "2">>, <<"x">>}

Leads == {<<>>, <<" ", " ">>}

Gaps == {<<>>, <<" ">>, <<" ", " ", " ">>}

Trails == {<<>>, <<" ", " ">>}

Lines ==
  {lead \o word \o gap \o value \o trail :
     lead \in Leads, word \in Words, gap \in Gaps, value \in Values, trail \in Trails}

\* the lines of the streams that carry two lines
ShortLines == {HANDSHAKE, <<"/", "b", "1", " ", "5">>, <<"f", "o", "o">>, <<>>}

\* the length of the line that is longer than UdpSerial's maxBufLen
LongLen == 70

\* an address, a space, a digit and padding, LongLen bytes in all
LongLine == [i \in 1..LongLen |-> IF i = 1 THEN "/" ELSE IF i = 2 THEN "b"
                                   ELSE IF i = 3 THEN " "
                                   ELSE IF i = 4 THEN "7" ELSE "x"]

Streams ==
  {l \o <<NL>> : l \in Lines}
    \cup {k \o <<NL>> \o l \o <<NL>> : k \in ShortLines, l \in ShortLines}
    \cup {LongLine \o <<NL>>}

\* ids of the buttons of the radio group (the sketch's RADIO_GROUP)
RADIO_GROUP == <<1, 2, 3>>

NUM_RADIO == Len(RADIO_GROUP)

\* the buttons of the radio group that the loop polls, in polling order
RadioOrder == <<1, 2>>

ButtonIds == {RADIO_GROUP[i] : i \in 1..NUM_RADIO}

\* currRadioId before any radio button was selected: the id of no button
NoRadio == 0

\* behavior codes given to the constructor; 5 stands for any unrecognized code
Behaviors == 1..5

-----------------------------------------------------------------------------
(* TouchlessButton *)

triggerConfirmDelay == 200

handRemovedConfirmDelay == 500

\* the flags setBehavior() leaves set
setBehavior(behavior) ==
  [isTrigger  |-> behavior = 1,
   isToggle   |-> behavior = 2,
   isRadio    |-> behavior = 3,
   isCControl |-> behavior = 4]

\* the object after the constructor (at millis() = t) and setThreshold()
NewButton(id, behavior, t) ==
  setBehavior(behavior) @@
  [buttonId                      |-> id,
   minThreshold                  |-> MinThreshold,
   maxThreshold                  |-> MaxThreshold,
   toggleOn                      |-> FALSE,
   unconfirmedTrigger            |-> FALSE,
   lastConfirmedTriggerTime      |-> t,
   lastUnconfirmedTriggerTime    |-> 0,
   handRemoved                   |-> TRUE,
   unconfirmedHandRemoval        |-> FALSE,
   lastConfirmedHandRemovalTime  |-> 0,
   raValues                      |-> [i \in 0..(SMOOTHING - 1) |-> 0],
   raLen                         |-> SMOOTHING,
   raInc                         |-> 0,
   raFinal                       |-> 0,
   sensorValue                   |-> 0]

\* dist = 13 * pow(analogRead * 5/1024, -1), truncated to int; a in 1..1023
Dist(a) == (13 * 1024) \div (5 * a)

RECURSIVE SumTo(_, _)
SumTo(vals, n) == IF n = 0 THEN 0 ELSE vals[n - 1] + SumTo(vals, n - 1)

sumArray(s) == SumTo(s.raValues, s.raLen)

MutAverageOverCursor(s) == sumArray(s) \div (s.raInc + 1)

calcRunningAverage(s) == sumArray(s) \div s.raLen

\* the sample is stored at the write cursor and the average recomputed
StoreSample(s, dist) ==
  LET s1 == [s EXCEPT !.raValues[s.raInc] = dist]
  IN  [s1 EXCEPT !.raFinal = calcRunningAverage(s1)]

WithinRange(s) == s.raFinal >= s.minThreshold /\ s.raFinal <= s.maxThreshold

\* "don't retrigger too often"
MutNoCoolDown(s, t) == TRUE

CoolDownOver(s, t) == t - s.lastConfirmedTriggerTime > triggerConfirmDelay

Call(id, val) == [id |-> id, val |-> val]

Result(s, cur, out) == [s |-> s, cur |-> cur, out |-> out]

MutMomentaryKeepsHandRemoved(s, cur, t) ==
  IF CoolDownOver(s, t)
  THEN Result([s EXCEPT !.lastConfirmedTriggerTime = t],
              cur, <<Call(s.buttonId, s.sensorValue)>>)
  ELSE Result(s, cur, <<>>)

\* momentary button, hand was removed
TriggerClick(s, cur, t) ==
  IF CoolDownOver(s, t)
  THEN Result([s EXCEPT !.lastConfirmedTriggerTime = t, !.handRemoved = FALSE],
              cur, <<Call(s.buttonId, s.sensorValue)>>)
  ELSE Result(s, cur, <<>>)

MutToggleSendsOldState(s, cur, t) ==
  IF CoolDownOver(s, t)
  THEN Result([s EXCEPT !.lastConfirmedTriggerTime = t, !.handRemoved = FALSE,
                        !.toggleOn = ~s.toggleOn],
              cur,
              <<Call(s.buttonId, IF s.toggleOn THEN s.sensorValue ELSE 0)>>)
  ELSE Result(s, cur, <<>>)

\* toggle button, hand was removed
ToggleClick(s, cur, t) ==
  IF CoolDownOver(s, t)
  THEN Result([s EXCEPT !.lastConfirmedTriggerTime = t, !.handRemoved = FALSE,
                        !.toggleOn = ~s.toggleOn],
              cur,
              <<Call(s.buttonId, IF ~s.toggleOn THEN s.sensorValue ELSE 0)>>)
  ELSE Result(s, cur, <<>>)

MutRadioSkipsOthers(s, cur, t) ==
  IF CoolDownOver(s, t)
  THEN Result([s EXCEPT !.lastConfirmedTriggerTime = t, !.handRemoved = FALSE],
              s.buttonId, <<Call(s.buttonId, s.sensorValue)>>)
  ELSE Result(s, cur, <<>>)

MutRadioKeepsSelection(s, cur, t) ==
  IF CoolDownOver(s, t)
  THEN Result([s EXCEPT !.lastConfirmedTriggerTime = t, !.handRemoved = FALSE],
              cur,
              [i \in 1..NUM_RADIO |->
                 IF RADIO_GROUP[i] = s.buttonId
                   THEN Call(RADIO_GROUP[i], s.sensorValue)
                   ELSE Call(RADIO_GROUP[i], 0)])
  ELSE Result(s, cur, <<>>)

\* radio button, hand was removed, not the selected one: one call per group member
RadioClick(s, cur, t) ==
  IF CoolDownOver(s, t)
  THEN Result([s EXCEPT !.lastConfirmedTriggerTime = t, !.handRemoved = FALSE],
              IF \E i \in 1..NUM_RADIO : RADIO_GROUP[i] = s.buttonId
                THEN s.buttonId ELSE cur,
              [i \in 1..NUM_RADIO |->
                 IF RADIO_GROUP[i] = s.buttonId
                   THEN Call(RADIO_GROUP[i], s.sensorValue)
                   ELSE Call(RADIO_GROUP[i], 0)])
  ELSE Result(s, cur, <<>>)

MutContinuousCoolsDown(s, cur, t) ==
  IF CoolDownOver(s, t)
  THEN Result([s EXCEPT !.lastConfirmedTriggerTime = t], cur,
              <<Call(s.buttonId, s.sensorValue)>>)
  ELSE Result(s, cur, <<>>)

\* continuous controller
ContinuousControl(s, cur, t) ==
  Result(s, cur, <<Call(s.buttonId, s.sensorValue)>>)

MutRadioReselects(s, cur, t) ==
  IF ~s.unconfirmedTrigger
  THEN Result([s EXCEPT !.unconfirmedTrigger = TRUE,
                        !.lastUnconfirmedTriggerTime = t], cur, <<>>)
  ELSE IF t - s.lastUnconfirmedTriggerTime > triggerConfirmDelay
  THEN LET s1 == [s EXCEPT !.sensorValue = s.raFinal]
       IN  IF s1.isTrigger /\ s1.handRemoved THEN TriggerClick(s1, cur, t)
           ELSE IF s1.isToggle /\ s1.handRemoved THEN ToggleClick(s1, cur, t)
           ELSE IF s1.isRadio /\ s1.handRemoved THEN RadioClick(s1, cur, t)
           ELSE IF s1.isCControl THEN ContinuousControl(s1, cur, t)
           ELSE Result(s1, cur, <<>>)
  ELSE Result(s, cur, <<>>)

\* the smoothed value is within range
InRangeBranch(s, cur, t) ==
  IF ~s.unconfirmedTrigger
  THEN Result([s EXCEPT !.unconfirmedTrigger = TRUE,
                        !.lastUnconfirmedTriggerTime = t], cur, <<>>)
  ELSE IF t - s.lastUnconfirmedTriggerTime > triggerConfirmDelay
  THEN LET s1 == [s EXCEPT !.sensorValue = s.raFinal]
       IN  IF s1.isTrigger /\ s1.handRemoved THEN TriggerClick(s1, cur, t)
           ELSE IF s1.isToggle /\ s1.handRemoved THEN ToggleClick(s1, cur, t)
           ELSE IF s1.isRadio /\ s1.handRemoved /\ s1.buttonId # cur
             THEN RadioClick(s1, cur, t)
           ELSE IF s1.isCControl THEN ContinuousControl(s1, cur, t)
           ELSE Result(s1, cur, <<>>)
  ELSE Result(s, cur, <<>>)

MutExitGateRestarts(s, cur, t) ==
  LET s1 == [s EXCEPT !.unconfirmedHandRemoval = TRUE,
                      !.lastConfirmedHandRemovalTime = t]
  IN  IF s1.unconfirmedHandRemoval
         /\ t - s1.lastConfirmedHandRemovalTime > handRemovedConfirmDelay
      THEN Result([s1 EXCEPT !.lastConfirmedHandRemovalTime = t,
                             !.handRemoved = TRUE], cur, <<>>)
      ELSE Result(s1, cur, <<>>)

\* out of range while the hand is held over the sensor
HandHeldBranch(s, cur, t) ==
  LET s1 == IF ~s.unconfirmedHandRemoval
              THEN [s EXCEPT !.unconfirmedHandRemoval = TRUE,
                             !.lastConfirmedHandRemovalTime = t]
              ELSE s
  IN  IF s1.unconfirmedHandRemoval
         /\ t - s1.lastConfirmedHandRemovalTime > handRemovedConfirmDelay
      THEN Result([s1 EXCEPT !.lastConfirmedHandRemovalTime = t,
                             !.handRemoved = TRUE], cur, <<>>)
      ELSE Result(s1, cur, <<>>)

\* out of range after the hand removal is confirmed
UntriggerBranch(s, cur, t) ==
  Result([s EXCEPT !.unconfirmedTrigger = FALSE, !.sensorValue = 0], cur, <<>>)

AdvanceCursor(s) == [s EXCEPT !.raInc = (s.raInc + 1) % s.raLen]

\* TouchlessButton::update() of object s reading analog value a at millis() = t
ButtonUpdate(s, cur, a, t) ==
  LET s1 == StoreSample(s, Dist(a))
      r  == IF WithinRange(s1) THEN InRangeBranch(s1, cur, t)
            ELSE IF ~s1.handRemoved THEN HandHeldBranch(s1, cur, t)
            ELSE UntriggerBranch(s1, cur, t)
  IN  Result(AdvanceCursor(r.s), r.cur, r.out)

getValue(s) == s.sensorValue

-----------------------------------------------------------------------------
(* UdpSerial *)

maxBufLen == 64

\* isspace()
IsSpace(c) == c \in {" ", "\t", "\n", "\r", "\f"}

Minimum(S) == CHOOSE x \in S : \A y \in S : x <= y

Maximum(S) == CHOOSE x \in S : \A y \in S : x >= y

\* String::toCharArray(buf, n): at most n - 1 characters are copied
toCharArray(str, n) == SubSeq(str, 1, Minimum({Len(str), n - 1}))

NoMatch == [matched |-> FALSE, cap |-> <<>>]

Matched(cap) == [matched |-> TRUE, cap |-> cap]

\* MatchState::Match of a pattern of plain characters: found anywhere in the target
MatchLiteral(buf, lit) ==
  IF \E i \in 1..(Len(buf) - Len(lit) + 1) : SubSeq(buf, i, i + Len(lit) - 1) = lit
  THEN Matched(<<>>) ELSE NoMatch

\* MatchState::Match("(.+)%s"): from the first start that can match, the
\* longest run of any characters that a space character follows
MatchBeforeSpace(buf) ==
  LET starts == {i \in 1..Len(buf) : \E p \in (i + 1)..Len(buf) : IsSpace(buf[p])}
  IN  IF starts = {} THEN NoMatch
      ELSE LET i == Minimum(starts)
               p == Maximum({q \in (i + 1)..Len(buf) : IsSpace(buf[q])})
           IN  Matched(SubSeq(buf, i, p - 1))

\* MatchState::Match("(%S+)$"): the run of non-space characters that ends the target
MatchLastToken(buf) ==
  LET starts == {i \in 1..Len(buf) : \A p \in i..Len(buf) : ~IsSpace(buf[p])}
  IN  IF starts = {} THEN NoMatch
      ELSE Matched(SubSeq(buf, Minimum(starts), Len(buf)))

MutParseSkipsHandshake(u) ==
  LET buf == toCharArray(u.inputString, maxBufLen)
      url == MatchBeforeSpace(buf)
      val == MatchLastToken(buf)
  IN  [u EXCEPT !.inputUrl = IF url.matched THEN url.cap ELSE @,
                !.inputVal = IF val.matched THEN val.cap ELSE @]

parseMessage(u) ==
  LET buf == toCharArray(u.inputString, maxBufLen)
  IN  IF MatchLiteral(buf, HANDSHAKE).matched
      THEN [u EXCEPT !.receivedHandshake = TRUE]
      ELSE LET url == MatchBeforeSpace(buf)
               val == MatchLastToken(buf)
           IN  [u EXCEPT !.inputUrl = IF url.matched THEN url.cap ELSE @,
                         !.inputVal = IF val.matched THEN val.cap ELSE @]

MutClearKeepsUrl(u) ==
  [u EXCEPT !.readyToRead = FALSE, !.receivedHandshake = FALSE,
            !.inputString = <<>>, !.inputVal = <<>>]

clear(u) ==
  [u EXCEPT !.readyToRead = FALSE, !.receivedHandshake = FALSE,
            !.inputString = <<>>, !.inputUrl = <<>>, !.inputVal = <<>>]

NewUdpSerial ==
  [readyToRead |-> FALSE, receivedHandshake |-> FALSE,
   inputString |-> <<>>, inputUrl |-> <<>>, inputVal |-> <<>>]

Digits == <<"0", "1", "2", "3", "4", "5", "6", "7", "8", "9">>

IsDigit(c) == \E d \in 1..10 : Digits[d] = c

DigitValue(c) == (CHOOSE d \in 1..10 : Digits[d] = c) - 1

\* a value held in an int of 16 bits
Int16(n) == ((n + 32768) % 65536) - 32768

RECURSIVE DigitsValue(_, _)
DigitsValue(str, acc) ==
  IF str # <<>> /\ IsDigit(Head(str))
  THEN DigitsValue(Tail(str), Int16(acc * 10 + DigitValue(Head(str))))
  ELSE acc

RECURSIVE atoi(_)
atoi(str) ==
  IF str = <<>> THEN 0
  ELSE IF IsSpace(Head(str)) THEN atoi(Tail(str))
  ELSE IF Head(str) = "-" THEN Int16(0 - DigitsValue(Tail(str), 0))
  ELSE IF Head(str) = "+" THEN DigitsValue(Tail(str), 0)
  ELSE DigitsValue(str, 0)

stringToInt(str) == atoi(toCharArray(str, Len(str) + 1))

HandshakeCall == [cb |-> "OnHandshakeReceived"]

MessageCall(url, val) == [cb |-> "OnMessageReceived", url |-> url, val |-> val]

\* the callback made once a line is ready
Dispatch(u) ==
  IF u.receivedHandshake THEN <<HandshakeCall>>
  ELSE <<MessageCall(u.inputUrl, stringToInt(u.inputVal))>>

RECURSIVE MutReadLoopDrains(_, _)
MutReadLoopDrains(u, in) ==
  IF in # <<>>
  THEN IF Head(in) = NL
       THEN MutReadLoopDrains([parseMessage(u) EXCEPT !.readyToRead = TRUE], Tail(in))
       ELSE MutReadLoopDrains([u EXCEPT !.inputString = Append(@, Head(in))], Tail(in))
  ELSE [u |-> u, in |-> in]

\* the while loop of update(): read until a newline has been parsed or nothing is left
RECURSIVE ReadLoop(_, _)
ReadLoop(u, in) ==
  IF in # <<>> /\ ~u.readyToRead
  THEN IF Head(in) = NL
       THEN ReadLoop([parseMessage(u) EXCEPT !.readyToRead = TRUE], Tail(in))
       ELSE ReadLoop([u EXCEPT !.inputString = Append(@, Head(in))], Tail(in))
  ELSE [u |-> u, in |-> in]

\* UdpSerial::update() of object u with the bytes in available
UdpUpdate(u, in) ==
  LET r == ReadLoop(u, in)
  IN  IF r.u.readyToRead
      THEN [u |-> clear(r.u), in |-> r.in, calls |-> Dispatch(r.u)]
      ELSE [u |-> r.u, in |-> r.in, calls |-> <<>>]

-----------------------------------------------------------------------------
(* Observations of the byte stream *)

NewRx ==
  [cur   |-> <<>>,    \* bytes read since the last newline read
   done  |-> FALSE,   \* the most recent update() read a newline
   line  |-> <<>>,    \* the bytes of the line that newline completed
   nl    |-> 0,       \* newlines read by the most recent update()
   lines |-> <<>>,    \* every line completed so far, in the order read
   log   |-> <<>>]    \* every callback made so far, in the order made

NewlinesOf(q) == {i \in 1..Len(q) : q[i] = NL}

\* the lines of q that a newline ends, in order
CompletedLines(q) ==
  LET P == NewlinesOf(q)
      pos(j) == CHOOSE i \in P : Cardinality({k \in P : k < i}) = j - 1
  IN  [j \in 1..Cardinality(P) |->
         SubSeq(q, (IF j = 1 THEN 1 ELSE pos(j - 1) + 1), pos(j) - 1)]

\* the bytes of q after its last newline
AfterNewlines(q) ==
  SubSeq(q, (IF NewlinesOf(q) = {} THEN 1 ELSE Maximum(NewlinesOf(q)) + 1), Len(q))

\* the observation after an update() that read the bytes `read` and made
\* the callbacks `out`
ObserveRead(o, read, out) ==
  LET all  == o.cur \o read
      full == CompletedLines(all)
  IN  [cur   |-> AfterNewlines(all),
       done  |-> NewlinesOf(read) # {},
       line  |-> IF full = <<>> THEN <<>> ELSE full[Len(full)],
       nl    |-> Cardinality(NewlinesOf(read)),
       lines |-> o.lines \o full,
       log   |-> o.log \o out]

-----------------------------------------------------------------------------
(* The serial line: bytes arrive, and loop() calls update() *)

SerialIdle ==
  /\ udp = NewUdpSerial
  /\ wire = <<>>
  /\ serialIn = <<>>
  /\ calls = <<>>
  /\ rx = NewRx

SerialArrive ==
  \E k \in 1..Len(wire) :
    /\ serialIn' = serialIn \o SubSeq(wire, 1, k)
    /\ wire' = SubSeq(wire, k + 1, Len(wire))
    /\ UNCHANGED <<udp, calls, rx>>
    /\ UNCHANGED btnVars

SerialUpdate ==
  LET r == UdpUpdate(udp, serialIn)
  IN  /\ udp' = r.u
      /\ serialIn' = r.in
      /\ calls' = r.calls
      /\ rx' = ObserveRead(rx, SubSeq(serialIn, 1, Len(serialIn) - Len(r.in)), r.calls)
      /\ UNCHANGED wire
      /\ UNCHANGED btnVars

-----------------------------------------------------------------------------
(* Observations of a button's poll history *)

NoSpan == 0 - 1

NewObs ==
  [polls      |-> 0,       \* update() calls so far, counted up to SMOOTHING + 1
   hist       |-> <<>>,    \* the last min(polls, SMOOTHING) raw samples, newest last
   spanStart  |-> NoSpan,  \* time of the first poll of the current unbroken
                           \* in-range run of polls; NoSpan when the last poll
                           \* was out of range
   cycleCalls |-> 0,       \* calls made by update() since handRemoved last became true
   kinds      |-> <<>>,    \* for each call made for the button's own id: "on"
                           \* (the smoothed value) or "off" (0)
   outStart   |-> NoSpan,  \* time of the first poll of the current unbroken
                           \* out-of-range run of polls that began with
                           \* handRemoved false; NoSpan otherwise
   lastFire   |-> 0]       \* time of construction, then of the most recent
                           \* update() of a momentary, toggle or radio button
                           \* that made calls

KindOf(call, s) ==
  IF call.val = 0 THEN "off" ELSE IF call.val = s.raFinal THEN "on" ELSE "other"

RECURSIVE OwnKinds(_, _)
OwnKinds(out, s) ==
  IF out = <<>> THEN <<>>
  ELSE (IF Head(out).id = s.buttonId THEN <<KindOf(Head(out), s)>> ELSE <<>>)
       \o OwnKinds(Tail(out), s)

Observe(o, s, r, dist, t) ==
  [polls      |-> IF o.polls > SMOOTHING THEN o.polls ELSE o.polls + 1,
   hist       |-> IF Len(o.hist) < SMOOTHING THEN Append(o.hist, dist)
                  ELSE Append(Tail(o.hist), dist),
   spanStart  |-> IF WithinRange(r.s)
                    THEN (IF o.spanStart = NoSpan THEN t ELSE o.spanStart)
                    ELSE NoSpan,
   cycleCalls |-> IF ~s.handRemoved /\ r.s.handRemoved THEN 0
                  ELSE o.cycleCalls + Len(r.out),
   kinds      |-> o.kinds \o OwnKinds(r.out, r.s),
   outStart   |-> IF WithinRange(r.s) \/ s.handRemoved THEN NoSpan
                  ELSE IF o.outStart = NoSpan THEN t ELSE o.outStart,
   lastFire   |-> IF r.out # <<>> /\ ~s.isCControl THEN t ELSE o.lastFire]

\* the kind of the most recent call for each id after the calls out, made
\* by the update() that left the button as s
RECURSIVE Recent(_, _, _)
Recent(rec, out, s) ==
  IF out = <<>> THEN rec
  ELSE Recent([id \in DOMAIN rec |->
                 IF id = Head(out).id THEN KindOf(Head(out), s) ELSE rec[id]],
              Tail(out), s)

NoCalls == [id \in ButtonIds |-> "none"]

-----------------------------------------------------------------------------
(* The polling loop: some button's update() runs at a later millis() reading *)

Poll(b, a, t) ==
  LET r == ButtonUpdate(btn[b], currRadioId, a, t)
  IN  /\ btn' = [btn EXCEPT ![b] = r.s]
      /\ currRadioId' = r.cur
      /\ now' = t
      /\ polled' = b
      /\ emitted' = r.out
      /\ obs' = [obs EXCEPT ![b] = Observe(obs[b], btn[b], r, Dist(a), t)]
      /\ recent' = Recent(recent, r.out, r.s)
      /\ UNCHANGED udpVars

PollButton ==
  \E b \in DOMAIN btn, a \in AnalogReads, d \in Steps :
    /\ now + d <= MaxTime
    /\ Poll(b, a, now + d)

\* the loop over the radio group: the buttons are polled in turn, the
\* first of each pass later than the pass before, the others of the pass at
\* the same reading
PollRadio ==
  \E a \in RadioReads, d \in RadioSteps :
    LET first == polled = 0 \/ polled = RadioOrder[Len(RadioOrder)]
        b     == IF first THEN RadioOrder[1]
                 ELSE RadioOrder[1 + CHOOSE i \in 1..Len(RadioOrder) : RadioOrder[i] = polled]
        t     == IF first THEN now + d ELSE now
    IN  /\ t <= MaxTimeRadio
        /\ Poll(b, a, t)

\* one button of any behavior
Init ==
  /\ \E behavior \in Behaviors : btn = [b \in {1} |-> NewButton(b, behavior, 0)]
  /\ currRadioId = NoRadio
  /\ now = 0
  /\ polled = 0
  /\ emitted = <<>>
  /\ obs = [b \in {1} |-> NewObs]
  /\ recent = NoCalls
  /\ SerialIdle

Next == PollButton

Spec == Init /\ [][Next]_vars

\* millis() moves on to a later reading; under Next the steps that do so are
\* the steps of PollButton, and the two are enabled in the same states
LoopRuns == \E d \in Steps : now + d <= MaxTime /\ now' = now + d

\* loop() never stops calling update(): as long as a later millis() reading
\* is left to explore, the button is polled again
SpecLive == Init /\ [][Next]_vars /\ WF_now(LoopRuns)

RadioSensors == {RadioOrder[i] : i \in 1..Len(RadioOrder)}

\* the radio group: every polled button is a radio button
InitRadio ==
  /\ btn = [b \in RadioSensors |-> NewButton(b, 3, 0)]
  /\ currRadioId = NoRadio
  /\ now = 0
  /\ polled = 0
  /\ emitted = <<>>
  /\ obs = [b \in RadioSensors |-> NewObs]
  /\ recent = NoCalls
  /\ SerialIdle

NextRadio == PollRadio

SpecRadio == InitRadio /\ [][NextRadio]_vars

\* the serial line alone: a sender is about to send one of the streams
InitSerial ==
  /\ btn = <<>>
  /\ currRadioId = NoRadio
  /\ now = 0
  /\ polled = 0
  /\ emitted = <<>>
  /\ obs = <<>>
  /\ recent = NoCalls
  /\ udp = NewUdpSerial
  /\ wire \in Streams
  /\ serialIn = <<>>
  /\ calls = <<>>
  /\ rx = NewRx

NextSerial == SerialArrive \/ SerialUpdate

SpecSerial == InitSerial /\ [][NextSerial]_vars

-----------------------------------------------------------------------------
(* Properties *)

Polled(b) == polled = b /\ b \in DOMAIN btn

RECURSIVE SeqSum(_)
SeqSum(q) == IF q = <<>> THEN 0 ELSE Head(q) + SeqSum(Tail(q))

\* C1: Enter debounce.  An update() calls onTrigger only at the end of an
\* unbroken run of in-range polls that has lasted longer than
\* triggerConfirmDelay; in particular never at the first in-range poll after
\* an out-of-range poll.
Cex_C1_EnterDebounce ==
  \A b \in DOMAIN btn :
    (Polled(b) /\ emitted # <<>>) =>
      /\ obs[b].spanStart # NoSpan
      /\ now - obs[b].spanStart > triggerConfirmDelay

\* C2: Momentary mode.  Between two confirmations of hand removal the button
\* makes exactly one call, onTrigger(id, smoothedValue), at the poll that
\* clears handRemoved; while handRemoved stays false no further call is made.
Thm_C2_MomentaryOncePerCycle ==
  \A b \in DOMAIN btn :
    btn[b].isTrigger =>
      /\ obs[b].cycleCalls = (IF btn[b].handRemoved THEN 0 ELSE 1)
      /\ (Polled(b) /\ emitted # <<>>) =>
            /\ emitted = <<Call(b, btn[b].raFinal)>>
            /\ ~btn[b].handRemoved

\* a momentary button has fired and its hand removal has been confirmed again
Wit_C2_CycleCompleted ==
  \E b \in DOMAIN btn :
    /\ btn[b].isTrigger
    /\ btn[b].handRemoved
    /\ btn[b].lastConfirmedTriggerTime > 0
    /\ obs[b].kinds = <<"on">>

\* C3: Toggle mode.  The calls of a toggle button alternate "on" (smoothed
\* value), "off" (0), starting with "on", and toggleOn has flipped exactly
\* once per call.
Thm_C3_ToggleAlternates ==
  \A b \in DOMAIN btn :
    btn[b].isToggle =>
      /\ \A i \in 1..Len(obs[b].kinds) :
            obs[b].kinds[i] = (IF i % 2 = 1 THEN "on" ELSE "off")
      /\ btn[b].toggleOn = (Len(obs[b].kinds) % 2 = 1)
      /\ Polled(b) => (Len(emitted) <= 1 /\ \A i \in 1..Len(emitted) : emitted[i].id = b)

\* a toggle button has been switched on, off and on again
Wit_C3_ThreeToggles ==
  \E b \in DOMAIN btn : btn[b].isToggle /\ obs[b].kinds = <<"on", "off", "on">>

\* the calls of a radio fan-out for button b with smoothed value v
FanOut(b, v) ==
  [i \in 1..NUM_RADIO |-> Call(RADIO_GROUP[i], IF RADIO_GROUP[i] = b THEN v ELSE 0)]

\* C4: Radio fan-out.  The update() in which a radio button that is not the
\* selected one becomes active (handRemoved cleared) makes exactly one call
\* per group member, smoothed value for itself and 0 for the others, and
\* leaves currRadioId equal to its id; any other update() of a radio button
\* makes no call and leaves currRadioId alone.
Thm_C4_RadioFanOut ==
  [][\A b \in DOMAIN btn :
       (polled' = b /\ btn[b].isRadio) =>
         IF btn[b].handRemoved /\ ~btn'[b].handRemoved
         THEN /\ currRadioId # b
              /\ emitted' = FanOut(b, btn'[b].raFinal)
              /\ currRadioId' = b
         ELSE /\ emitted' = <<>>
              /\ currRadioId' = currRadioId]_vars

\* a radio button took the selection over from another member
Wit_C4_SelectionMoved ==
  \E b \in DOMAIN btn :
    /\ btn[b].isRadio
    /\ Polled(b)
    /\ Len(emitted) = NUM_RADIO
    /\ currRadioId = b
    /\ \E c \in DOMAIN btn : c # b /\ obs[c].kinds # <<>> /\ obs[c].kinds[1] = "on"

\* C5: Continuous mode.  Every poll of a continuous button at which the
\* unbroken in-range run has lasted longer than triggerConfirmDelay makes
\* exactly one call, onTrigger(id, smoothedValue), whatever handRemoved and
\* the time since the previous call are; its other polls make none; and no
\* poll of it changes handRemoved, toggleOn or currRadioId.
Thm_C5_ContinuousEveryPoll ==
  [][\A b \in DOMAIN btn :
       (polled' = b /\ btn[b].isCControl) =>
         /\ emitted' =
              (IF obs'[b].spanStart # NoSpan
                  /\ now' - obs'[b].spanStart > triggerConfirmDelay
               THEN <<Call(b, btn'[b].raFinal)>>
               ELSE <<>>)
         /\ btn'[b].handRemoved = btn[b].handRemoved
         /\ btn'[b].toggleOn = btn[b].toggleOn
         /\ currRadioId' = currRadioId]_vars

\* a continuous button calls again one step after its previous call
Wit_C5_CallsInARow ==
  \E b \in DOMAIN btn :
    /\ btn[b].isCControl
    /\ Polled(b)
    /\ emitted = <<Call(b, btn[b].raFinal)>>
    /\ Len(obs[b].kinds) >= 3
    /\ now - obs[b].spanStart >= 2 * triggerConfirmDelay

\* C6: Smoothing.  After k >= 1 update() calls the smoothed value of the
\* k-th call is the sum of the min(k, N) most recent raw samples divided by
\* the buffer length N (integer division); the buffer length stays N and the
\* write cursor stays in 0..N-1.
Thm_C6_RunningAverage ==
  \A b \in DOMAIN btn :
    /\ btn[b].raLen = SMOOTHING
    /\ DOMAIN btn[b].raValues = 0..(SMOOTHING - 1)
    /\ btn[b].raInc \in 0..(SMOOTHING - 1)
    /\ Len(obs[b].hist) = (IF obs[b].polls < SMOOTHING THEN obs[b].polls ELSE SMOOTHING)
    /\ obs[b].polls >= 1 => btn[b].raFinal = SeqSum(obs[b].hist) \div SMOOTHING

\* the buffer has wrapped around and holds samples that differ
Wit_C6_BufferWrapped ==
  \E b \in DOMAIN btn :
    /\ obs[b].polls > SMOOTHING
    /\ obs[b].hist[1] # obs[b].hist[Len(obs[b].hist)]
    /\ btn[b].raFinal * SMOOTHING # SeqSum(obs[b].hist)

-----------------------------------------------------------------------------
(* Properties of the serial line *)

Contains(text, lit) ==
  \E i \in 1..(Len(text) - Len(lit) + 1) : SubSeq(text, i, i + Len(lit) - 1) = lit

RECURSIVE DecimalValue(_)
DecimalValue(str) ==
  IF str = <<>> THEN 0
  ELSE 10 * DecimalValue(SubSeq(str, 1, Len(str) - 1)) + DigitValue(str[Len(str)])

IsDecimal(str) == str # <<>> /\ \A i \in 1..Len(str) : IsDigit(str[i])

NoSpaceIn(str) == \A i \in 1..Len(str) : ~IsSpace(str[i])

\* the maximal runs of non-space characters of a text, in order
RECURSIVE Tokens(_, _)
Tokens(text, cur) ==
  IF text = <<>> THEN (IF cur = <<>> THEN <<>> ELSE <<cur>>)
  ELSE IF IsSpace(Head(text))
    THEN (IF cur = <<>> THEN <<>> ELSE <<cur>>) \o Tokens(Tail(text), <<>>)
  ELSE Tokens(Tail(text), Append(cur, Head(text)))

\* C7: A completed line that is exactly "handshake" causes exactly one
\* OnHandshakeReceived() call and no OnMessageReceived call.
Thm_C7_HandshakeLine ==
  (rx.done /\ rx.line = HANDSHAKE) => calls = <<HandshakeCall>>

\* the line "handshake" has been completed and dispatched
Wit_C7_HandshakeLine ==
  rx.done /\ rx.line = HANDSHAKE /\ calls = <<HandshakeCall>>

\* C8: Handshake exactness.  A completed line that is not exactly
\* "handshake" causes no OnHandshakeReceived() call.
Cex_C8_HandshakeExact ==
  (rx.done /\ rx.line # HANDSHAKE) =>
    \A i \in 1..Len(calls) : calls[i] # HandshakeCall

\* address, one space, decimal value; nothing else; shorter than the buffer
WellFormedCommand(line) ==
  /\ Len(line) < maxBufLen
  /\ Len(Tokens(line, <<>>)) = 2
  /\ line = Tokens(line, <<>>)[1] \o <<" ">> \o Tokens(line, <<>>)[2]
  /\ IsDecimal(Tokens(line, <<>>)[2])

\* C9: Well-formed command.  A completed line "<address> <value>" with one
\* space, a non-empty address without whitespace and a decimal value causes
\* exactly one OnMessageReceived(address, integer(value)) call and no
\* handshake call.
Cex_C9_WellFormedCommand ==
  (rx.done /\ WellFormedCommand(rx.line)) =>
    calls = <<MessageCall(Tokens(rx.line, <<>>)[1],
                          DecimalValue(Tokens(rx.line, <<>>)[2]))>>

\* address and value separated by spaces, with optional spaces around them,
\* and no handshake pattern in the line
SpacedCommand(line) ==
  /\ Len(line) < maxBufLen
  /\ \A i \in 1..Len(line) : IsSpace(line[i]) => line[i] = " "
  /\ Len(Tokens(line, <<>>)) = 2
  /\ ~Contains(line, HANDSHAKE)

\* C10: Whitespace-tolerant tokenization.  For a completed command line
\* whose address and value are separated by one or more spaces, with
\* optional leading and trailing spaces, the address passed to
\* OnMessageReceived is the first token and the value passed is the integer
\* of the last token.
Cex_C10_Tokenization ==
  (rx.done /\ SpacedCommand(rx.line)) =>
    /\ Len(calls) = 1
    /\ calls[1].cb = "OnMessageReceived"
    /\ calls[1].url = Tokens(rx.line, <<>>)[1]
    /\ NoSpaceIn(calls[1].url)
    /\ IsDecimal(Tokens(rx.line, <<>>)[2]) =>
          calls[1].val = DecimalValue(Tokens(rx.line, <<>>)[2])

\* a line without the handshake pattern that has no whitespace separator,
\* or nothing but whitespace
Malformed(line) ==
  /\ ~Contains(line, HANDSHAKE)
  /\ NoSpaceIn(line) \/ Tokens(line, <<>>) = <<>>

\* C11: Malformed lines dropped.  A completed line that is not "handshake"
\* and has no whitespace separator, or is empty after trimming, causes
\* neither an OnMessageReceived nor an OnHandshakeReceived call.
Cex_C11_MalformedDropped ==
  (rx.done /\ Malformed(rx.line)) => calls = <<>>

\* C12: Truncated lines.  When more bytes than the maximum line length
\* arrive before a newline, the accumulation buffer never holds more than
\* the maximum, and the newline that ends such a line causes no callback.
Cex_C12_TruncatedLines ==
  /\ Len(udp.inputString) <= maxBufLen
  /\ (rx.done /\ Len(rx.line) > maxBufLen) => calls = <<>>

\* the second half of C12 alone: no callback for a line longer than the
\* maximum
NoCallForLongLine ==
  (rx.done /\ Len(rx.line) > maxBufLen) => calls = <<>>

\* the callbacks update() makes for a line read into a cleared object
CallsFor(line) ==
  Dispatch(parseMessage([NewUdpSerial EXCEPT !.inputString = line]))

\* C18: Reset after dispatch.  Whenever update() returns after dispatching
\* a line, inputString, inputUrl and inputVal are empty and readyToRead and
\* receivedHandshake are false; the callback and arguments of a line
\* depend only on that line's bytes, never on earlier lines.
Thm_C18_ResetAfterDispatch ==
  rx.done => udp = NewUdpSerial /\ calls = CallsFor(rx.line)

\* a line without a separator has been dispatched right after a command
\* line, whose address it does not inherit
Wit_C18_SecondLineDispatched ==
  /\ rx.done
  /\ rx.lines = << <<"/", "b", "1", " ", "5">>, <<"f", "o", "o">> >>
  /\ calls = <<MessageCall(<<>>, 0)>>
  /\ udp = NewUdpSerial

RECURSIVE CallsForAll(_)
CallsForAll(lines) ==
  IF lines = <<>> THEN <<>> ELSE CallsFor(Head(lines)) \o CallsForAll(Tail(lines))

RECURSIVE Unsplit(_)
Unsplit(lines) ==
  IF lines = <<>> THEN <<>> ELSE Head(lines) \o <<NL>> \o Unsplit(Tail(lines))

\* C19: Chunking independence.  Each update() call consumes bytes only up
\* to and including the first newline and makes at most one callback; the
\* callbacks made for a byte stream are those of its lines, in line order,
\* however the bytes are split across update() calls; no byte is lost or
\* reordered.
Thm_C19_ChunkingIndependence ==
  /\ rx.nl <= 1
  /\ rx.done => rx.cur = <<>>
  /\ Len(calls) <= 1
  /\ calls # <<>> => rx.done
  /\ rx.log = CallsForAll(rx.lines)
  /\ Unsplit(rx.lines) \o rx.cur \o serialIn \o wire \in Streams

\* update() has dispatched the first line and left a complete second line,
\* which had arrived as well, unread
Wit_C19_SecondLineLeft ==
  /\ rx.done /\ Len(rx.lines) = 1 /\ Len(rx.log) = 1
  /\ wire = <<>>
  /\ serialIn # <<>> /\ serialIn[Len(serialIn)] = NL

-----------------------------------------------------------------------------
(* Properties of the exit gate, the cool-down and the radio group *)

\* C13: Exit hysteresis.  On every cycle handRemoved changes from false to
\* true only at a poll that ends a span longer than handRemovedConfirmDelay
\* during which the smoothed value was out of range on every poll.
Cex_C13_ExitHysteresis ==
  [][\A b \in DOMAIN btn :
       (~btn[b].handRemoved /\ btn'[b].handRemoved) =>
          /\ obs'[b].outStart # NoSpan
          /\ now' - obs'[b].outStart > handRemovedConfirmDelay]_vars

\* this update() of button b made the calls of an activation
Activates(b) == polled' = b /\ emitted' # <<>> /\ ~btn[b].isCControl

\* C14: Cool-down.  An update() of a momentary, toggle or radio button
\* activates (makes calls and sets handRemoved false) only if handRemoved
\* was true and more than triggerConfirmDelay has passed since the
\* button's previous activation, or since construction.
Thm_C14_CoolDown ==
  [][\A b \in DOMAIN btn :
       Activates(b) =>
          /\ btn[b].handRemoved /\ ~btn'[b].handRemoved
          /\ now' - obs[b].lastFire > triggerConfirmDelay]_vars

\* the cool-down alone has held an activation back: a momentary or toggle
\* button was polled in range with the enter gate confirmed and handRemoved
\* true, no longer than triggerConfirmDelay after its last activation
Wit_C14_CoolDownBlocks ==
  \E b \in DOMAIN btn :
    /\ Polled(b) /\ emitted = <<>>
    /\ btn[b].isTrigger \/ btn[b].isToggle
    /\ btn[b].handRemoved /\ WithinRange(btn[b])
    /\ btn[b].unconfirmedTrigger
    /\ now - btn[b].lastUnconfirmedTriggerTime > triggerConfirmDelay
    /\ obs[b].lastFire > 0
    /\ now - obs[b].lastFire <= triggerConfirmDelay

\* button b is the selected radio button and this update() of it finds the
\* smoothed value in range and the enter gate past its delay
ReselectPoll(b) ==
  /\ polled' = b
  /\ btn[b].isRadio /\ currRadioId = b
  /\ WithinRange(btn'[b])
  /\ btn[b].unconfirmedTrigger
  /\ now' - btn[b].lastUnconfirmedTriggerTime > triggerConfirmDelay

\* C15: Radio re-selection is a no-op.  When the radio button whose id
\* equals currRadioId is polled in range and past the enter delay, update()
\* makes no call for any member and leaves currRadioId, handRemoved and the
\* cool-down timestamp as they were.
Thm_C15_RadioReselection ==
  [][\A b \in DOMAIN btn :
       ReselectPoll(b) =>
          /\ emitted' = <<>>
          /\ currRadioId' = currRadioId
          /\ btn'[b].handRemoved = btn[b].handRemoved
          /\ btn'[b].lastConfirmedTriggerTime = btn[b].lastConfirmedTriggerTime]_vars

\* the selected radio button has been polled in range with its hand removal
\* confirmed, the enter gate past its delay and the cool-down over: only
\* the comparison with currRadioId held the calls back
Wit_C15_SelectedPolledAgain ==
  \E b \in DOMAIN btn :
    /\ Polled(b) /\ emitted = <<>>
    /\ btn[b].isRadio /\ currRadioId = b
    /\ btn[b].handRemoved /\ WithinRange(btn[b])
    /\ btn[b].unconfirmedTrigger
    /\ now - btn[b].lastUnconfirmedTriggerTime > triggerConfirmDelay
    /\ now - btn[b].lastConfirmedTriggerTime > triggerConfirmDelay

\* C16: Reported value is zero unless Active.  getValue() returns 0 for a
\* momentary, toggle or radio button, or a button of an unrecognized
\* behavior, whose handRemoved is true, that is, which has not activated
\* since it was last idle.
Cex_C16_ValueZeroUnlessActive ==
  \A b \in DOMAIN btn :
    (~btn[b].isCControl /\ btn[b].handRemoved) => getValue(btn[b]) = 0

\* C17: Radio group consistency.  At most one member of the radio group
\* has an "on" call as the most recent call for its id, and that member is
\* currRadioId; whenever currRadioId names a member, the most recent call
\* for that member is "on".
Thm_C17_RadioGroupConsistency ==
  /\ \A m \in ButtonIds : recent[m] = "on" => currRadioId = m
  /\ currRadioId \in ButtonIds => recent[currRadioId] = "on"

\* the selection has moved from one member to another: the first has "off"
\* as its most recent call, the second "on", the unpolled third "off"
Wit_C17_SelectionMovedOn ==
  /\ currRadioId = 2
  /\ recent = [m \in ButtonIds |-> IF m = 2 THEN "on" ELSE "off"]
  /\ Len(obs[1].kinds) >= 2 /\ obs[1].kinds[1] = "on"

-----------------------------------------------------------------------------
(* Re-arming *)

\* the hand removal of button b is not confirmed and its last poll was out
\* of range
Releasing(b) == ~btn[b].handRemoved /\ obs[b].spanStart = NoSpan

\* time that out-of-range polls need to confirm the hand removal and then
\* to reset the enter gate
RearmWindow == handRemovedConfirmDelay + Maximum(Steps) + Minimum(Steps)

\* button b is idle again: hand removal confirmed and enter gate reset
Rearmed(b) == btn[b].handRemoved /\ ~btn[b].unconfirmedTrigger

\* C20: Re-arm liveness.  From every reachable state of a momentary,
\* toggle or radio button with handRemoved false, if the smoothed value is
\* out of range on every later poll and polls go on at later and later
\* times, handRemoved eventually becomes true and the enter gate is then
\* reset.  (Stated for states that leave RearmWindow of the explored time;
\* a poll in range ends the obligation.)
Thm_C20_RearmLiveness ==
  [](Releasing(1) /\ now + RearmWindow <= MaxTime
       => <>(Rearmed(1) \/ obs[1].spanStart # NoSpan))

\* a button that activated has been released: its hand removal has been
\* confirmed by out-of-range polls and the next one has reset the enter gate
Wit_C20_Rearmed ==
  /\ Polled(1) /\ Rearmed(1)
  /\ obs[1].kinds # <<>>
  /\ ~btn[1].isCControl
  /\ obs[1].spanStart = NoSpan
  /\ now - obs[1].lastFire > handRemovedConfirmDelay

====
